---- MODULE Spec2Model ----
\* Job monitor: identity & status store (JobDatabase, db_manager), keyword
\* filter, extraction backends and the discovery cycle (JobMonitor,
\* RailwayJobMonitor), modelled from the Python sources.
\*
\* Text is modelled as a sequence of one-character strings, so that
\* concatenation, prefixes, substrings, strip() and lower() are computed as
\* the code computes them.
EXTENDS Integers, Sequences, FiniteSets, TLC

VARIABLES
    jobs,            \* table jobs: rows in id order (id = index)
    history,         \* table job_status_history: rows in id order
    now,             \* CURRENT_TIMESTAMP (one-second resolution clock)
    last,            \* the most recent store call: operation, argument, outcome
    nset,            \* per identity: update calls made while its record existed
    fresh,           \* identities whose record was inserted with no earlier history row
    use_playwright,  \* RailwayJobMonitor.use_playwright (probe result)
    patched,         \* monitor.scrape_job_site has been replaced by the static scraper
    config,          \* the configuration loaded at start, and the entry point run
    cyc,             \* observation of the most recent discovery cycle
    fn,              \* a pure function under test: name, input, output
    adding,          \* per process: its add_job call in progress or returned
    run              \* the discovery cycle in progress: its position and local variables

vars ==
    <<jobs, history, now, last, nset, fresh, use_playwright, patched, config, cyc, fn,
      adding, run>>

storeVars == <<jobs, history, now, last, nset, fresh>>
monitorVars == <<use_playwright, patched, config, cyc, run>>

-----------------------------------------------------------------------------
\* Bounds of the model.

MaxTime == 1        \* the clock runs 0..MaxTime
MaxUpdates == 2     \* status-update calls per behaviour
MaxCycles == 2      \* discovery cycles per behaviour
MaxList == 2        \* length of the posting list given to the keyword filter
MaxKeywords == 2    \* length of the keyword list given to the keyword filter
MaxElems == 2       \* container elements on a page given to a backend
MaxUrl == 2         \* length, in pieces, of a site url given to the selector resolver

-----------------------------------------------------------------------------
\* Python values.

\* Python's None, where a text value is expected.
None == <<"<None>">>

\* str(x) inside an f-string: None is rendered as the text "None".
Format(x) == IF x = None THEN <<"N", "o", "n", "e">> ELSE x

\* dict.get(key, default): the default only when the key is missing.
Get(d, key, default) == IF key \in DOMAIN d THEN d[key] ELSE default

\* Python truthiness of a text value or None.
Truthy(x) == x # None /\ x # <<>>

IsWhite(c) == c = " "

RECURSIVE LStrip(_)
LStrip(s) == IF s # <<>> /\ IsWhite(Head(s)) THEN LStrip(Tail(s)) ELSE s

RECURSIVE RStrip(_)
RStrip(s) ==
    IF s # <<>> /\ IsWhite(s[Len(s)]) THEN RStrip(SubSeq(s, 1, Len(s) - 1)) ELSE s

\* str.strip()
Strip(s) == RStrip(LStrip(s))

LowerChar(c) ==
    CASE c = "A" -> "a"
      [] c = "B" -> "b"
      [] c = "D" -> "d"
      [] c = "M" -> "m"
      [] c = "O" -> "o"
      [] c = "P" -> "p"
      [] c = "S" -> "s"
      [] c = "LEVER.CO" -> "lever.co"
      [] c = "GreenHouse" -> "greenhouse"
      [] c = "Workday" -> "workday"
      [] OTHER -> c

\* str.lower()
Lower(s) == [i \in 1..Len(s) |-> LowerChar(s[i])]

\* str.startswith(prefix)
StartsWith(s, prefix) ==
    Len(prefix) <= Len(s) /\ SubSeq(s, 1, Len(prefix)) = prefix

\* needle in haystack (substring test)
Contains(haystack, needle) ==
    \E i \in 1..(Len(haystack) - Len(needle) + 1) :
        SubSeq(haystack, i, i + Len(needle) - 1) = needle

-----------------------------------------------------------------------------
\* JobDatabase: identity.

\* hashlib.md5(...).hexdigest(): taken as collision-free on the texts of the
\* model, so the digest is the tagged text.
Md5Hex(s) == <<"#">> \o s

hash_string(job_data) ==
    Format(Get(job_data, "title", <<>>)) \o Format(Get(job_data, "company", <<>>))
        \o Format(Get(job_data, "url", <<>>))

generate_job_hash(job_data) == Md5Hex(hash_string(job_data))

\* SQLite enforces FOREIGN KEY clauses only after PRAGMA foreign_keys = ON,
\* which no connection of the program issues.
foreign_keys == FALSE

-----------------------------------------------------------------------------
\* JobDatabase: the two tables and the operations on them.

StatusNew == <<"new">>
NoteDiscovered == <<"Job discovered by monitor">>

JobRow(job_hash, job_data, t) ==
    [job_hash |-> job_hash,
     title |-> Get(job_data, "title", <<>>),
     company |-> Get(job_data, "company", <<>>),
     url |-> Get(job_data, "url", <<>>),
     location |-> Get(job_data, "location", <<>>),
     department |-> Get(job_data, "department", <<>>),
     employment_type |-> Get(job_data, "employment_type", <<>>),
     first_seen |-> t,
     last_updated |-> t,
     status |-> StatusNew,
     notes |-> None]

HistoryRow(job_hash, status, t, notes) ==
    [job_hash |-> job_hash, status |-> status, timestamp |-> t, notes |-> notes]

job_exists(J, job_hash) == \E i \in 1..Len(J) : J[i].job_hash = job_hash

\* The NOT NULL columns of an inserted jobs row.
JobsNotNullOk(row) ==
    row.job_hash # None /\ row.title # None /\ row.company # None /\ row.url # None

\* add_job: the result and the tables after the call. An IntegrityError leaves
\* the connection's context manager, which rolls the transaction back.
\* The two INSERTs of add_job and the commit. job_hash is UNIQUE.
insert_job(J, H, t, job_hash, job_data) ==
    LET row == JobRow(job_hash, job_data, t)
    IN  IF ~JobsNotNullOk(row) \/ job_exists(J, job_hash)
        THEN [ret |-> "raise", jobs |-> J, history |-> H]
        ELSE [ret |-> "True",
              jobs |-> Append(J, row),
              history |-> Append(H, HistoryRow(job_hash, StatusNew, t, NoteDiscovered))]

\* add_job without the job_exists test.
add_job_unchecked(J, H, t, job_data) ==
    insert_job(J, H, t, generate_job_hash(job_data), job_data)

\* add_job that refreshes the scraped fields of the record it finds.
add_job_refreshing(J, H, t, job_data) ==
    LET job_hash == generate_job_hash(job_data)
    IN  IF job_exists(J, job_hash)
        THEN [ret |-> "False",
              jobs |-> [i \in 1..Len(J) |->
                           IF J[i].job_hash = job_hash
                           THEN [J[i] EXCEPT !.location = Get(job_data, "location", <<>>),
                                             !.last_updated = t]
                           ELSE J[i]],
              history |-> H]
        ELSE insert_job(J, H, t, job_hash, job_data)

add_job(J, H, t, job_data) ==
    LET job_hash == generate_job_hash(job_data)
    IN  IF job_exists(J, job_hash)
        THEN [ret |-> "False", jobs |-> J, history |-> H]
        ELSE insert_job(J, H, t, job_hash, job_data)

\* The UPDATE without its WHERE clause.
UpdateEveryRow(J, matching, status, t) ==
    [i \in 1..Len(J) |-> [J[i] EXCEPT !.status = status, !.last_updated = t]]

\* UPDATE jobs SET status = ?, last_updated = CURRENT_TIMESTAMP WHERE <match>
UpdateRows(J, matching, status, t) ==
    [i \in 1..Len(J) |->
        IF i \in matching THEN [J[i] EXCEPT !.status = status, !.last_updated = t]
        ELSE J[i]]

\* update_job_status that writes a history row only when the status changes.
update_job_status_on_change(J, H, t, job_hash, status, notes) ==
    LET matching == {i \in 1..Len(J) : J[i].job_hash = job_hash}
        Same == \E i \in matching : J[i].status = status
    IN  [ret |-> "None",
         jobs |-> UpdateRows(J, matching, status, t),
         history |-> IF Same THEN H
                     ELSE Append(H, HistoryRow(job_hash, status, t, notes))]

\* update_job_status that keeps only the latest history row of the identity.
update_job_status_replacing(J, H, t, job_hash, status, notes) ==
    LET matching == {i \in 1..Len(J) : J[i].job_hash = job_hash}
        Other(e) == e.job_hash # job_hash
    IN  [ret |-> "None",
         jobs |-> UpdateRows(J, matching, status, t),
         history |-> Append(SelectSeq(H, Other), HistoryRow(job_hash, status, t, notes))]

\* update_job_status without the UPDATE of the jobs row.
update_job_status_history_only(J, H, t, job_hash, status, notes) ==
    [ret |-> "None",
     jobs |-> J,
     history |-> Append(H, HistoryRow(job_hash, status, t, notes))]

\* JobDatabase.update_job_status: UPDATE (of no row when the hash is unknown),
\* then INSERT into the history, then commit.
update_job_status(J, H, t, job_hash, status, notes) ==
    LET matching == {i \in 1..Len(J) : J[i].job_hash = job_hash}
    IN  IF status = None \/ (foreign_keys /\ ~job_exists(J, job_hash))
        THEN [ret |-> "raise", jobs |-> J, history |-> H]
        ELSE [ret |-> "None",
              jobs |-> UpdateRows(J, matching, status, t),
              history |-> Append(H, HistoryRow(job_hash, status, t, notes))]

StatusUpdatedTo(new_status) == <<"Status updated to ">> \o new_status

\* db_manager.update_job_status: looks the row up by id; when there is none it
\* reports "not found" on standard output and returns.
dbm_update_job_status(J, H, t, job_id, new_status, notes) ==
    IF job_id \notin 1..Len(J)
        THEN [ret |-> "not found", jobs |-> J, history |-> H]
        ELSE [ret |-> "None",
              jobs |-> UpdateRows(J, {job_id}, new_status, t),
              history |-> Append(H, HistoryRow(J[job_id].job_hash, new_status, t,
                                    IF Truthy(notes) THEN notes
                                    ELSE StatusUpdatedTo(new_status)))]

\* The history rows of one identity, in insertion order.
HistoryOf(H, job_hash) ==
    LET Is(e) == e.job_hash = job_hash IN SelectSeq(H, Is)

\* The jobs rows of one identity.
RowsOf(J, job_hash) ==
    LET Is(r) == r.job_hash = job_hash IN SelectSeq(J, Is)

-----------------------------------------------------------------------------
\* Inputs of the store operations.

Posting(title, company, url, location) ==
    [title |-> title, company |-> company, url |-> url, location |-> location,
     department |-> <<>>, employment_type |-> <<>>]

\* The postings given to add_job. Two of the triples concatenate to the same
\* text, and differ in the location as well.
ApiPostings ==
    {Posting(<<"a">>, <<"b", "c">>, <<"u">>, <<>>),
     Posting(<<"a", "b">>, <<"c">>, <<"u">>, <<"x">>),
     Posting(<<"b">>, <<"c">>, <<"u">>, <<>>)}

ApiHashes == {generate_job_hash(p) : p \in ApiPostings}

\* The identities a status update is asked for.
UpdateHashes == ApiHashes

Statuses == {StatusNew, <<"applied">>}

\* The --new-status values given to db_manager.
DbmStatuses == {<<"applied">>}

NoCall == [op |-> "none", arg |-> <<>>, ret |-> "None",
           had_record |-> FALSE, had_history |-> FALSE, first |-> "-"]

\* The record of a call on tables J, H about identity job_hash: whether the
\* identity had a jobs row and history rows before the call, and, in first,
\* the result of the call before it when that was an add_job of the same
\* posting on tables that held nothing of the identity ("-" otherwise).
Call(op, arg, ret, J, H, job_hash) ==
    [op |-> op, arg |-> arg, ret |-> ret,
     had_record |-> job_exists(J, job_hash),
     had_history |-> HistoryOf(H, job_hash) # <<>>,
     first |-> IF /\ op = "add_job"
                  /\ last.op = "add_job"
                  /\ last.arg = arg
                  /\ ~last.had_record
                  /\ ~last.had_history
               THEN last.ret ELSE "-"]

\* Status-update calls made so far that reached the history.
UpdatesDone == Len(history) - Len(jobs)

-----------------------------------------------------------------------------
\* Actions of the store.

AddJob ==
    \E p \in ApiPostings :
        LET h == generate_job_hash(p)
            r == add_job(jobs, history, now, p)
        IN  /\ jobs' = r.jobs
            /\ history' = r.history
            /\ last' = Call("add_job", p, r.ret, jobs, history, h)
            /\ fresh' = IF r.ret = "True" /\ HistoryOf(history, h) = <<>>
                        THEN fresh \cup {h} ELSE fresh
            /\ UNCHANGED <<now, nset, monitorVars, fn, adding>>

UpdateJobStatus ==
    /\ UpdatesDone < MaxUpdates
    /\ \E h \in UpdateHashes, s \in Statuses, n \in {None} :
        LET r == update_job_status(jobs, history, now, h, s, n)
        IN  /\ jobs' = r.jobs
            /\ history' = r.history
            /\ last' = Call("update_job_status", h, r.ret, jobs, history, h)
            /\ nset' = IF job_exists(jobs, h) /\ r.ret = "None"
                       THEN [nset EXCEPT ![h] = @ + 1] ELSE nset
            /\ UNCHANGED <<now, fresh, monitorVars, fn, adding>>

DbManagerUpdate ==
    /\ UpdatesDone < MaxUpdates
    /\ \E id \in 1..(Len(jobs) + 1), s \in DbmStatuses, n \in {None} :
        LET r == dbm_update_job_status(jobs, history, now, id, s, n)
            h == IF id \in 1..Len(jobs) THEN jobs[id].job_hash ELSE None
        IN  /\ jobs' = r.jobs
            /\ history' = r.history
            /\ last' = Call("dbm_update_job_status", h, r.ret, jobs, history, h)
            /\ nset' = IF r.ret = "None" THEN [nset EXCEPT ![h] = @ + 1] ELSE nset
            /\ UNCHANGED <<now, fresh, monitorVars, fn, adding>>

\* init_database that drops the tables before it creates them.
init_database_recreating(J, H, initialised) ==
    [ret |-> "None", jobs |-> <<>>, history |-> <<>>]

\* JobDatabase.init_database on a database file whose tables exist or not
\* (initialised): CREATE TABLE IF NOT EXISTS, twice, and a commit. On
\* existing tables neither statement does anything.
init_database(J, H, initialised) ==
    [ret |-> "None", jobs |-> J, history |-> H]

\* JobDatabase.__init__ at a process start, or init_database called again:
\* the tables exist since the first construction.
InitDatabase ==
    LET r == init_database(jobs, history, TRUE)
    IN  /\ jobs' = r.jobs
        /\ history' = r.history
        /\ last' = Call("init_database", <<>>, r.ret, jobs, history, None)
        /\ UNCHANGED <<now, nset, fresh, monitorVars, fn, adding>>

\* A second passes.
Tick ==
    /\ now < MaxTime
    /\ now' = now + 1
    /\ UNCHANGED <<jobs, history, last, nset, fresh, monitorVars, fn, adding>>

\* No discovery cycle has run yet. handed is the set of identities that the
\* cycles before the most recent one gave to send_email_alert.
NoCycle ==
    [n |-> 0, web |-> <<>>, calls |-> <<>>, site_jobs |-> <<>>, all_jobs |-> <<>>,
     filtered_jobs |-> <<>>, new_jobs |-> <<>>, inner |-> "none", outer |-> "none",
     email |-> "none", handed |-> {}]

\* The two configured sites, and between them a company without a url.
SiteS == [name |-> <<"b", "c">>, url |-> <<"http://", "s">>]
SiteT == [name |-> <<"c", "http://", "r">>, url |-> <<"http://", "t">>]
Companies == <<SiteS, [name |-> <<"n">>], SiteT>>

\* The keyword lists a configuration may carry.
ConfigKeywords == {<<>>, << <<"B">> >>}

Config(entry, keywords) ==
    [entry |-> entry, keywords |-> keywords, companies |-> Companies]

\* No discovery cycle is in progress, and none has been started.
NoRun == [pc |-> "idle", n |-> 0, i |-> 1, all_jobs |-> <<>>, queue |-> <<>>,
          new_jobs |-> <<>>]

NoFn == [name |-> "none", in |-> <<>>, out |-> <<>>]

\* The processes that work on the same database file.
Procs == {"p", "q"}

\* The process is not in add_job.
NotAdding == [pc |-> "idle", job_data |-> <<>>, saw |-> FALSE, ret |-> "None"]

StoreInit ==
    /\ jobs = <<>>
    /\ history = <<>>
    /\ now = 0
    /\ last = NoCall
    /\ nset = [h \in ApiHashes |-> 0]
    /\ fresh = {}
    /\ adding = [p \in Procs |-> NotAdding]

Init ==
    /\ StoreInit
    /\ use_playwright = TRUE
    /\ patched = FALSE
    /\ config = Config("enhanced", <<>>)
    /\ cyc = NoCycle
    /\ run = NoRun
    /\ fn = NoFn

Next ==
    \/ AddJob
    \/ UpdateJobStatus
    \/ DbManagerUpdate
    \/ InitDatabase
    \/ Tick

Spec == Init /\ [][Next]_vars

-----------------------------------------------------------------------------
\* JobMonitor.filter_jobs_by_keywords.

\* any(keyword.lower() in title for keyword in keywords), title lower-cased.
\* The same test with the lower() of the keyword left out:
job_matches_keyword_as_written(job, keywords) ==
    LET title == Lower(Get(job, "title", <<>>))
    IN  \E i \in 1..Len(keywords) : Contains(title, keywords[i])

job_matches(job, keywords) ==
    LET title == Lower(Get(job, "title", <<>>))
    IN  \E i \in 1..Len(keywords) : Contains(title, Lower(keywords[i]))

\* The loop over jobs, appending the matching ones to filtered_jobs.
RECURSIVE filter_loop(_, _)
filter_loop(js, keywords) ==
    IF js = <<>> THEN <<>>
    ELSE IF job_matches(Head(js), keywords)
         THEN <<Head(js)>> \o filter_loop(Tail(js), keywords)
         ELSE filter_loop(Tail(js), keywords)

\* filter_jobs_by_keywords without the "if not keywords" return.
filter_jobs_always(js, keywords) == filter_loop(js, keywords)

filter_jobs_by_keywords(js, keywords) ==
    IF keywords = <<>> THEN js ELSE filter_loop(js, keywords)

-----------------------------------------------------------------------------
\* Pure functions applied to inputs drawn from bounded sets.

\* All sequences over S of length at most n.
SeqsUpTo(S, n) == UNION {[1..k -> S] : k \in 0..n}

HashPostings ==
    {Posting(t, c, u, l) :
        t \in {<<"a">>, <<"a", "b">>}, c \in {<<"b", "c">>, <<"c">>},
        u \in {<<"u">>, <<"v">>}, l \in {<<>>, <<"x">>}}

HashPair ==
    /\ fn = NoFn
    /\ \E p1 \in HashPostings, p2 \in HashPostings :
          fn' = [name |-> "generate_job_hash",
                 in |-> <<p1, p2>>,
                 out |-> <<generate_job_hash(p1), generate_job_hash(p2)>>]
    /\ UNCHANGED <<storeVars, monitorVars, adding>>

NextHash == HashPair

SpecHash == Init /\ [][NextHash]_vars

FilterTitles ==
    {<<"D", "e", "v", "O", "p", "s">>, <<"o", "p", "s">>, <<"P", "M">>}

FilterPostings ==
    {Posting(t, c, <<"u">>, <<>>) : t \in FilterTitles, c \in {<<"c">>, <<"d">>}}

FilterKeywords == {<<"o", "p", "s">>, <<"O", "P">>, <<"d", "e", "v">>, <<>>}

FilterJobs ==
    /\ fn = NoFn
    /\ \E js \in SeqsUpTo(FilterPostings, MaxList),
          keywords \in SeqsUpTo(FilterKeywords, MaxKeywords) :
          fn' = [name |-> "filter_jobs_by_keywords",
                 in |-> <<js, keywords>>,
                 out |-> filter_jobs_by_keywords(js, keywords)]
    /\ UNCHANGED <<storeVars, monitorVars, adding>>

NextFilter == FilterJobs

SpecFilter == Init /\ [][NextFilter]_vars

-----------------------------------------------------------------------------
\* Properties of the pure functions (specifications SpecHash, SpecFilter).

Triple(p) == <<p.title, p.company, p.url>>

\* C2: two postings have the same identity if and only if their
\* (title, company, url) triples are equal, also when the triples differ in
\* more than one field.
C2_IdentityIffTriple ==
    fn.name = "generate_job_hash" =>
        ((fn.out[1] = fn.out[2]) <=> (Triple(fn.in[1]) = Triple(fn.in[2])))

\* C9: with an empty keyword list the filter returns its input list: the same
\* postings in the same order.
C9_EmptyKeywordsIdentity ==
    (fn.name = "filter_jobs_by_keywords" /\ fn.in[2] = <<>>) => fn.out = fn.in[1]

\* C9 witness: the filter has been applied to a list of two different
\* postings with no keyword.
C9_Witness ==
    /\ fn.name = "filter_jobs_by_keywords"
    /\ fn.in[2] = <<>>
    /\ Len(fn.in[1]) = 2
    /\ fn.in[1][1] # fn.in[1][2]
    /\ fn.out = fn.in[1]

\* Two characters that are equal up to letter case.
SameLetter(c, d) ==
    \/ c = d
    \/ \E pair \in {<<"a", "A">>, <<"b", "B">>, <<"d", "D">>, <<"m", "M">>,
                     <<"o", "O">>, <<"p", "P">>, <<"s", "S">>} :
          {c, d} = {pair[1], pair[2]}

\* The keyword occurs in the title as a substring, letter case ignored.
OccursIgnoringCase(title, keyword) ==
    \E i \in 1..(Len(title) - Len(keyword) + 1) :
        \A j \in 1..Len(keyword) : SameLetter(title[i + j - 1], keyword[j])

\* C10: with a non-empty keyword list the filter returns, in input order,
\* exactly the postings whose title contains some keyword as a substring,
\* letter case ignored; the result depends on no other field.
C10_KeywordFilter ==
    (fn.name = "filter_jobs_by_keywords" /\ fn.in[2] # <<>>) =>
        LET Retained(job) ==
                \E i \in 1..Len(fn.in[2]) : OccursIgnoringCase(job.title, fn.in[2][i])
        IN  fn.out = SelectSeq(fn.in[1], Retained)

\* C10 witness: of two postings the first is dropped and the second kept, its
\* title matching the keyword only when letter case is ignored.
C10_Witness ==
    /\ fn.name = "filter_jobs_by_keywords"
    /\ fn.in[2] = << <<"O", "P">> >>
    /\ Len(fn.in[1]) = 2
    /\ fn.in[1][1].title = <<"P", "M">>
    /\ fn.in[1][2].title = <<"D", "e", "v", "O", "p", "s">>
    /\ fn.out = <<fn.in[1][2]>>

-----------------------------------------------------------------------------
\* Properties of the store (specification Spec).

UpdateOps == {"update_job_status", "dbm_update_job_status"}

\* C1: add is idempotent under identity. When add_job is called twice in a
\* row with the same posting, and the tables held neither a jobs row nor a
\* history row of its identity before the first call, the first call returns
\* True, the second returns False, and the tables then hold exactly one jobs
\* row and exactly one history row of that identity.
C1_AddTwice ==
    (last.op = "add_job" /\ last.first # "-") =>
        LET h == generate_job_hash(last.arg)
        IN  /\ last.first = "True"
            /\ last.ret = "False"
            /\ Len(RowsOf(jobs, h)) = 1
            /\ Len(HistoryOf(history, h)) = 1

\* C1 witness: the second of two identical add_job calls has returned False
\* after the first returned True.
C1_Witness ==
    /\ last.op = "add_job"
    /\ last.first = "True"
    /\ last.ret = "False"
    /\ Len(RowsOf(jobs, generate_job_hash(last.arg))) = 1

\* C3: a status update for an identity that has no jobs row fails: the call
\* raises (or, in db_manager, reports that the job was not found).
C3_UnknownIdentityFails ==
    (last.op \in UpdateOps /\ ~last.had_record) => last.ret \in {"raise", "not found"}

\* C4, the count: an identity whose record was added to tables holding no
\* history of it, and that has then seen N status updates, has N + 1 history
\* rows, the first of them the initial 'new' row.
C4_Count ==
    \A h \in fresh :
        LET hs == HistoryOf(history, h)
        IN  /\ Len(hs) = nset[h] + 1
            /\ hs[1].status = StatusNew
            /\ hs[1].notes = NoteDiscovered

\* C4, the step: a status update of an existing identity appends exactly one
\* history row, of that identity, and leaves the rows before it as they were.
C4_Append ==
    (nset' # nset) =>
        /\ Len(history') = Len(history) + 1
        /\ SubSeq(history', 1, Len(history)) = history
        /\ history'[Len(history')].job_hash = last'.arg
        /\ nset' = [nset EXCEPT ![last'.arg] = @ + 1]

\* C4: each status update of an existing identity appends exactly one history
\* row and removes or edits none; after add and N updates, in any order of
\* status values, the identity has N + 1 history rows, the first being 'new'.
C4_HistoryGrowsByOne == [](C4_Count) /\ [][C4_Append]_vars

\* C4 witness: an identity added and then updated twice, to 'applied' and
\* back to 'new', with three history rows.
C4_Witness ==
    \E h \in fresh :
        LET hs == HistoryOf(history, h)
        IN  /\ nset[h] = 2
            /\ Len(hs) = 3
            /\ hs[2].status = <<"applied">>
            /\ hs[3].status = StatusNew

-----------------------------------------------------------------------------
\* Pages. A page is what a backend meets at a site's url: the step that
\* fails, if any, and the container elements its container query finds. An
\* element carries what the queries inside it find.

NoField == <<None, None, None, None>>

\* An element with a title element and a link element.
Elem(title_text, href) ==
    [throws |-> FALSE,
     title_elem |-> TRUE, title_text |-> title_text,
     link_elem |-> TRUE, href |-> href,
     heading |-> None, anchor |-> None,
     location |-> NoField, department |-> NoField, employment_type |-> NoField]

Page(fail, elems) == [fail |-> fail, elems |-> elems]

UrlRedirect == <<"http://", "r", "http://", "y">>
UrlDirect == <<"http://", "y">>

\* What the first site may show.
PagesS ==
    {Page("none", <<Elem(<<"a">>, UrlRedirect)>>),
     Page("goto", <<Elem(<<"a">>, UrlRedirect)>>),
     Page("none", <<[Elem(<<>>, UrlRedirect) EXCEPT !.title_elem = FALSE],
                    Elem(<<" ">>, UrlRedirect),
                    [Elem(<<"b">>, UrlRedirect) EXCEPT !.throws = TRUE],
                    [Elem(<<"a", " ">>, UrlRedirect) EXCEPT
                        !.location = <<None, <<"x">>, None, <<"z">> >>]>>),
     Page("none", <<Elem(<<"b">>, None), Elem(<<"a">>, UrlRedirect)>>),
     Page("none", <<Elem(<<"a">>, UrlRedirect), Elem(<<"b">>, None)>>),
     Page("none", <<Elem(<<"a">>, UrlRedirect), Elem(<<"a">>, UrlRedirect)>>)}

\* What the second site may show.
PagesT ==
    {Page("none", <<Elem(<<"a", "b">>, UrlDirect)>>),
     Page("none", <<Elem(<<"b">>, <<"/", "k">>)>>),
     Page("launch", <<>>),
     Page("query", <<Elem(<<"b">>, <<"/", "k">>)>>)}

\* One page per configured company; the company without a url is never visited.
Webs == {<<ps, Page("none", <<>>), pt>> : ps \in PagesS, pt \in PagesT}

-----------------------------------------------------------------------------
\* JobMonitor.scrape_job_site: the dynamic backend.

UnknownTitle == <<"Unknown Title">>

\* link.startswith(('http://', 'https://'))
IsAbsolute(link) ==
    StartsWith(link, <<"http://">>) \/ StartsWith(link, <<"https://">>)

\* link.startswith('http')
StartsWithHttp(link) ==
    IsAbsolute(link) \/ StartsWith(link, <<"h", "t", "t", "p">>)

\* urllib.parse.urljoin, for a base without a path and a link that is a path.
urljoin(base, link) ==
    IF Head(link) = "/" THEN base \o link ELSE base \o <<"/">> \o link

\* The loop over location_selectors (dept_selectors, type_selectors): the
\* text of the first element found, stripped.
RECURSIVE first_match(_)
first_match(found) ==
    IF found = <<>> THEN <<>>
    ELSE IF Head(found) # None THEN Strip(Head(found))
    ELSE first_match(Tail(found))

\* The body of the loop over job_elements with the test on the title left out.
parse_job_element_any_title(company_name, url, elem) ==
    IF elem.throws THEN <<>>
    ELSE LET title == IF elem.title_elem THEN Strip(elem.title_text) ELSE UnknownTitle
             href == IF elem.link_elem THEN elem.href ELSE <<>>
             link == IF Truthy(href) /\ ~IsAbsolute(href) THEN urljoin(url, href)
                     ELSE href
         IN  <<[title |-> title, company |-> company_name, url |-> link,
                location |-> first_match(elem.location),
                department |-> first_match(elem.department),
                employment_type |-> first_match(elem.employment_type)]>>

\* The body of the loop over job_elements: the postings it appends (none or
\* one). An exception inside it is logged and the loop continues.
parse_job_element(company_name, url, elem) ==
    IF elem.throws THEN <<>>
    ELSE LET title == IF elem.title_elem THEN Strip(elem.title_text) ELSE UnknownTitle
             href == IF elem.link_elem THEN elem.href ELSE <<>>
             link == IF Truthy(href) /\ ~IsAbsolute(href) THEN urljoin(url, href)
                     ELSE href
         IN  IF title # <<>> /\ title # UnknownTitle
             THEN <<[title |-> title, company |-> company_name, url |-> link,
                     location |-> first_match(elem.location),
                     department |-> first_match(elem.department),
                     employment_type |-> first_match(elem.employment_type)]>>
             ELSE <<>>

RECURSIVE parse_job_elements(_, _, _)
parse_job_elements(company_name, url, elems) ==
    IF elems = <<>> THEN <<>>
    ELSE parse_job_element(company_name, url, Head(elems))
            \o parse_job_elements(company_name, url, Tail(elems))

\* The try block of scrape_job_site: the exception that leaves it, if any,
\* and the list jobs at that moment. The launch, the navigation and the
\* container query come before the loop; print_html_debug_playwright, called
\* when no element is found, catches its own exceptions; browser.close()
\* comes after the loop.
scrape_job_site_try(company_name, url, page) ==
    IF page.fail \in {"launch", "goto", "query"}
    THEN [raised |-> page.fail, jobs |-> <<>>]
    ELSE IF page.elems = <<>>
    THEN [raised |-> "none", jobs |-> <<>>]
    ELSE [raised |-> IF page.fail = "close" THEN "close" ELSE "none",
          jobs |-> parse_job_elements(company_name, url, page.elems)]

\* scrape_job_site without the handler around the try block.
scrape_job_site_uncaught(company_name, url, page) ==
    scrape_job_site_try(company_name, url, page)

\* The call of scrape_job_site: "except Exception" logs the exception, and
\* the function returns jobs.
scrape_job_site_call(company_name, url, page) ==
    [raised |-> "none", jobs |-> scrape_job_site_try(company_name, url, page).jobs]

scrape_job_site(company_name, url, page) ==
    scrape_job_site_call(company_name, url, page).jobs

-----------------------------------------------------------------------------
\* RailwayJobMonitor._patch_for_requests_scraping: the static backend.

\* The body of the loop over job_containers with the test on title and link
\* left out.
parse_container_untested(company_config, elem) ==
    IF elem.throws THEN <<>>
    ELSE LET selected == IF elem.title_elem THEN Strip(elem.title_text) ELSE <<>>
             title == IF selected # <<>> THEN selected
                      ELSE IF elem.heading # None THEN Strip(elem.heading)
                      ELSE <<>>
             href == IF elem.link_elem /\ Truthy(elem.href) THEN elem.href
                     ELSE IF Truthy(elem.anchor) THEN elem.anchor
                     ELSE <<>>
             link == IF href # <<>> /\ ~StartsWithHttp(href)
                     THEN urljoin(company_config.url, href) ELSE href
         IN  <<[title |-> title, url |-> link, company |-> company_config.name]>>

\* The body of the loop over job_containers.
parse_container(company_config, elem) ==
    IF elem.throws THEN <<>>
    ELSE LET selected == IF elem.title_elem THEN Strip(elem.title_text) ELSE <<>>
             title == IF selected # <<>> THEN selected
                      ELSE IF elem.heading # None THEN Strip(elem.heading)
                      ELSE <<>>
             href == IF elem.link_elem /\ Truthy(elem.href) THEN elem.href
                     ELSE IF Truthy(elem.anchor) THEN elem.anchor
                     ELSE <<>>
             link == IF href # <<>> /\ ~StartsWithHttp(href)
                     THEN urljoin(company_config.url, href) ELSE href
         IN  IF title # <<>> /\ link # <<>>
             THEN <<[title |-> title, url |-> link, company |-> company_config.name]>>
             ELSE <<>>

RECURSIVE parse_containers(_, _)
parse_containers(company_config, elems) ==
    IF elems = <<>> THEN <<>>
    ELSE parse_container(company_config, Head(elems))
            \o parse_containers(company_config, Tail(elems))

\* scrape_job_site_requests(company_config): a failing request is caught and
\* gives the empty list.
scrape_job_site_requests(company_config, page) ==
    IF page.fail # "none" THEN <<>>
    ELSE parse_containers(company_config, page.elems)

\* The number of parameters of the function bound to monitor.scrape_job_site:
\* the method takes (company_name, url, selectors), the function the patch
\* assigns takes (company_config).
MethodParams == 3
PatchParams == 1
ScraperParams(isPatched) == IF isPatched THEN PatchParams ELSE MethodParams

\* The number of arguments run_monitoring_cycle calls scrape_job_site with.
CallArgs == 3

-----------------------------------------------------------------------------
\* JobMonitor.get_new_jobs and JobMonitor.run_monitoring_cycle.

RECURSIVE Flatten(_)
Flatten(lists) ==
    IF lists = <<>> THEN <<>> ELSE Head(lists) \o Flatten(Tail(lists))

\* get_new_jobs that appends every job to new_jobs, whatever add_job returns.
RECURSIVE get_new_jobs_all(_, _, _, _)
get_new_jobs_all(J, H, t, js) ==
    IF js = <<>>
    THEN [raised |-> FALSE, jobs |-> J, history |-> H, new_jobs |-> <<>>]
    ELSE LET r == add_job(J, H, t, Head(js))
         IN  IF r.ret = "raise"
             THEN [raised |-> TRUE, jobs |-> r.jobs, history |-> r.history,
                   new_jobs |-> <<>>]
             ELSE LET rest == get_new_jobs_all(r.jobs, r.history, t, Tail(js))
                  IN  [raised |-> rest.raised,
                       jobs |-> rest.jobs,
                       history |-> rest.history,
                       new_jobs |-> IF rest.raised THEN <<>>
                                    ELSE <<Head(js)>> \o rest.new_jobs]

\* get_new_jobs that tests job_exists and writes nothing to the store.
get_new_jobs_uncommitted(J, H, t, js) ==
    LET Unknown(job) == ~job_exists(J, generate_job_hash(job))
    IN  [raised |-> FALSE, jobs |-> J, history |-> H, new_jobs |-> SelectSeq(js, Unknown)]

\* The loop over the jobs: an exception of add_job leaves the loop, with the
\* rows of the earlier postings committed.
RECURSIVE get_new_jobs(_, _, _, _)
get_new_jobs(J, H, t, js) ==
    IF js = <<>>
    THEN [raised |-> FALSE, jobs |-> J, history |-> H, new_jobs |-> <<>>]
    ELSE LET r == add_job(J, H, t, Head(js))
         IN  IF r.ret = "raise"
             THEN [raised |-> TRUE, jobs |-> r.jobs, history |-> r.history,
                   new_jobs |-> <<>>]
             ELSE LET rest == get_new_jobs(r.jobs, r.history, t, Tail(js))
                  IN  [raised |-> rest.raised,
                       jobs |-> rest.jobs,
                       history |-> rest.history,
                       new_jobs |-> IF rest.raised THEN <<>>
                                    ELSE (IF r.ret = "True" THEN <<Head(js)>> ELSE <<>>)
                                            \o rest.new_jobs]

\* The loop over the companies with a switch to the static scraper for the
\* companies after one on which the dynamic backend failed.
RECURSIVE scrape_companies_switching(_, _, _, _)
scrape_companies_switching(companies, web, isPatched, i) ==
    IF i > Len(companies)
    THEN [calls |-> <<>>, site_jobs |-> <<>>, raised |-> FALSE]
    ELSE LET company == companies[i]
             company_name == Get(company, "name", <<"Unknown Company">>)
             url == Get(company, "url", None)
             switch == isPatched \/ (Truthy(url) /\ web[i].fail # "none")
             rest == scrape_companies_switching(companies, web, switch, i + 1)
         IN  IF ~Truthy(url)
             THEN [calls |-> <<"skipped">> \o rest.calls,
                   site_jobs |-> << <<>> >> \o rest.site_jobs,
                   raised |-> rest.raised]
             ELSE [calls |-> <<IF isPatched THEN "static" ELSE "dynamic">> \o rest.calls,
                   site_jobs |->
                       <<IF isPatched THEN scrape_job_site_requests(company, web[i])
                         ELSE scrape_job_site(company_name, url, web[i])>>
                           \o rest.site_jobs,
                   raised |-> rest.raised]

\* The loop over the companies, from company i on: per company what was
\* called and what it returned. A call with the wrong number of arguments
\* raises TypeError, which ends the loop.
RECURSIVE scrape_companies(_, _, _, _)
scrape_companies(companies, web, isPatched, i) ==
    IF i > Len(companies)
    THEN [calls |-> <<>>, site_jobs |-> <<>>, raised |-> FALSE]
    ELSE LET company == companies[i]
             company_name == Get(company, "name", <<"Unknown Company">>)
             url == Get(company, "url", None)
             rest == scrape_companies(companies, web, isPatched, i + 1)
         IN  IF ~Truthy(url)
             THEN [calls |-> <<"skipped">> \o rest.calls,
                   site_jobs |-> << <<>> >> \o rest.site_jobs,
                   raised |-> rest.raised]
             ELSE IF ScraperParams(isPatched) # CallArgs
             THEN [calls |-> <<"TypeError">>
                                \o [j \in 1..(Len(companies) - i) |-> "not run"],
                   site_jobs |-> [j \in 1..(Len(companies) - i + 1) |-> <<>>],
                   raised |-> TRUE]
             ELSE [calls |-> <<IF isPatched THEN "static" ELSE "dynamic">> \o rest.calls,
                   site_jobs |->
                       <<IF isPatched THEN scrape_job_site_requests(company, web[i])
                         ELSE scrape_job_site(company_name, url, web[i])>>
                           \o rest.site_jobs,
                   raised |-> rest.raised]

\* JobMonitor.run_monitoring_cycle on tables J, H: how it ended (inner), the
\* tables after it, and what each of its steps produced. send_email_alert
\* catches its own failures; mail is whether the message went out.
run_monitoring_cycle(J, H, t, cfg, web, isPatched, mail) ==
    LET s == scrape_companies(Get(cfg, "companies", <<>>), web, isPatched, 1)
        all_jobs == Flatten(s.site_jobs)
        filtered_jobs == filter_jobs_by_keywords(all_jobs, Get(cfg, "keywords", <<>>))
        g == get_new_jobs(J, H, t, filtered_jobs)
    IN  IF s.raised
        THEN [inner |-> "TypeError", jobs |-> J, history |-> H,
              calls |-> s.calls, site_jobs |-> s.site_jobs, all_jobs |-> all_jobs,
              filtered_jobs |-> <<>>, new_jobs |-> <<>>, email |-> "none"]
        ELSE [inner |-> IF g.raised THEN "IntegrityError" ELSE "returned",
              jobs |-> g.jobs, history |-> g.history,
              calls |-> s.calls, site_jobs |-> s.site_jobs, all_jobs |-> all_jobs,
              filtered_jobs |-> filtered_jobs, new_jobs |-> g.new_jobs,
              email |-> IF g.new_jobs # <<>> THEN mail ELSE "none"]

\* What a cycle leaves in the variables: the tables, and the observation of
\* the cycle. outer is how the entry point ended.
CycleDone(r, web, outer) ==
    /\ jobs' = r.jobs
    /\ history' = r.history
    /\ fresh' = fresh \cup {r.jobs[i].job_hash : i \in (Len(jobs) + 1)..Len(r.jobs)}
    /\ last' = NoCall
    /\ cyc' = [n |-> cyc.n + 1, web |-> web, calls |-> r.calls,
               site_jobs |-> r.site_jobs, all_jobs |-> r.all_jobs,
               filtered_jobs |-> r.filtered_jobs, new_jobs |-> r.new_jobs,
               inner |-> r.inner, outer |-> outer, email |-> r.email,
               handed |-> cyc.handed \cup
                          (IF cyc.email # "none"
                           THEN {generate_job_hash(cyc.new_jobs[k]) :
                                    k \in 1..Len(cyc.new_jobs)}
                           ELSE {})]
    /\ UNCHANGED <<now, nset, use_playwright, config, fn, adding, run>>

\* JobMonitor.run_monitoring_cycle called by main of job_monitor_enhanced, the
\* sites showing web: an exception of the cycle leaves main.
EnhancedRun(web, mail) ==
    LET r == run_monitoring_cycle(jobs, history, now, config, web, patched, mail)
    IN  CycleDone(r, web, IF r.inner = "returned" THEN "returned" ELSE "raised")

\* main of job_monitor_enhanced: JobMonitor.run_monitoring_cycle with the
\* dynamic backend. An exception leaves the program.
EnhancedCycle ==
    /\ config.entry = "enhanced"
    /\ cyc.n < MaxCycles
    /\ cyc.outer # "raised"
    /\ \E web \in Webs, mail \in {"sent", "failed"} : EnhancedRun(web, mail)
    /\ UNCHANGED patched

\* RailwayJobMonitor.run_monitoring_cycle: patches the monitor when the probe
\* failed, runs the monitor's cycle, and logs any exception of it.
RailwayCycle ==
    /\ config.entry = "railway"
    /\ cyc.n < MaxCycles
    /\ patched' = (patched \/ ~use_playwright)
    /\ \E web \in Webs, mail \in {"sent", "failed"} :
          LET r == run_monitoring_cycle(jobs, history, now, config, web, patched', mail)
          IN  CycleDone(r, web, "returned")

\* The program after construction: the entry point that runs, the keywords of
\* the configuration and, for RailwayJobMonitor, the result of the probe.
InitCycle ==
    /\ StoreInit
    /\ patched = FALSE
    /\ cyc = NoCycle
    /\ run = NoRun
    /\ fn = NoFn
    /\ \E entry \in {"enhanced", "railway"}, keywords \in ConfigKeywords :
          /\ config = Config(entry, keywords)
          /\ use_playwright \in (IF entry = "railway" THEN BOOLEAN ELSE {TRUE})

NextCycle ==
    \/ EnhancedCycle
    \/ RailwayCycle

SpecCycle == InitCycle /\ [][NextCycle]_vars

-----------------------------------------------------------------------------
\* Properties of the discovery cycle (specification SpecCycle).

\* The indices of the configured companies that have a url.
Sites == {i \in 1..Len(config.companies) : "url" \in DOMAIN config.companies[i]}

\* The probe failed at construction, so the static backend is the one to use.
StaticChosen == config.entry = "railway" /\ ~use_playwright

\* What the backend in use extracts from the page of site i.
Extracted(i) ==
    IF StaticChosen
    THEN scrape_job_site_requests(config.companies[i], cyc.web[i])
    ELSE scrape_job_site(config.companies[i].name, config.companies[i].url, cyc.web[i])

\* The posting passes the configured keywords.
PassesKeywords(p) ==
    \/ config.keywords = <<>>
    \/ \E k \in 1..Len(config.keywords) : OccursIgnoringCase(p.title, config.keywords[k])

\* The store holds a record of the posting.
Committed(p) ==
    \E r \in 1..Len(jobs) :
        /\ jobs[r].title = p.title
        /\ jobs[r].company = p.company
        /\ jobs[r].url = p.url

\* C5: when the probe of the dynamic backend fails at construction, every
\* configured site is extracted by the static backend in the cycle, and the
\* postings it extracts reach the list the cycle aggregates.
C5_StaticFallback ==
    (StaticChosen /\ cyc.n > 0) =>
        /\ \A i \in Sites :
              /\ cyc.calls[i] = "static"
              /\ cyc.site_jobs[i] = Extracted(i)
        /\ cyc.all_jobs = Flatten([i \in 1..Len(cyc.web) |->
                                      IF i \in Sites THEN Extracted(i) ELSE <<>>])

\* C6: when the extraction of one site fails in a cycle, the sites after it
\* are still extracted, and the postings of all other sites that pass the
\* keywords are committed to the store.
C6_FailureIsolated ==
    cyc.n > 0 =>
        \A i \in Sites :
            cyc.web[i].fail # "none" =>
                /\ \A j \in Sites : j > i => cyc.calls[j] \in {"dynamic", "static"}
                /\ \A j \in Sites \ {i} :
                      \A k \in 1..Len(Extracted(j)) :
                          PassesKeywords(Extracted(j)[k]) => Committed(Extracted(j)[k])

\* In the observed cycle two sites were extracted, each gave one posting, and
\* the two postings differ in title and in url.
TwoSingles(c) ==
    LET ran == {i \in DOMAIN c.calls : c.calls[i] \in {"dynamic", "static"}}
    IN  /\ Cardinality(ran) = 2
        /\ \A i \in ran : Len(c.site_jobs[i]) = 1
        /\ \A i \in ran : \A j \in ran \ {i} :
              /\ c.site_jobs[i][1].title # c.site_jobs[j][1].title
              /\ c.site_jobs[i][1].url # c.site_jobs[j][1].url

\* A cycle on an empty store over two sites of one posting each.
C7_First ==
    (/\ cyc'.n = cyc.n + 1
     /\ jobs = <<>>
     /\ history = <<>>
     /\ config.keywords = <<>>
     /\ TwoSingles(cyc'))
        => /\ Len(jobs') = 2
           /\ Len(history') = 2
           /\ Len(cyc'.new_jobs) = 2

\* The cycle after it, over the same scraped data.
C7_Again ==
    (/\ cyc'.n = cyc.n + 1
     /\ config.keywords = <<>>
     /\ TwoSingles(cyc)
     /\ cyc.inner = "returned"
     /\ cyc'.site_jobs = cyc.site_jobs)
        => /\ jobs' = jobs
           /\ history' = history
           /\ cyc'.new_jobs = <<>>

\* C7: a cycle on an empty store over two sites that each yield one posting,
\* distinct in title and url, makes two new job records with one history
\* entry each; a second cycle over the same scraped data makes no record and
\* no history entry.
C7_TwoSitesEndToEnd == [][C7_First /\ C7_Again]_vars

UsableTitle(title) == title # <<>> /\ title # UnknownTitle /\ title # None

\* C8: a posting whose title is missing, empty or the placeholder is dropped
\* by the backend before the filter: no such posting is in the list a cycle
\* aggregates, no job record has such a title, every history entry belongs to
\* a record, and the static backend extracts no posting with an empty title
\* from the pages of the cycle.
C8_NoUnusableTitle ==
    /\ \A k \in 1..Len(cyc.all_jobs) : UsableTitle(cyc.all_jobs[k].title)
    /\ \A r \in 1..Len(jobs) : UsableTitle(jobs[r].title)
    /\ \A e \in 1..Len(history) : job_exists(jobs, history[e].job_hash)
    /\ \A i \in Sites :
          i \in DOMAIN cyc.web =>
              \A k \in 1..Len(scrape_job_site_requests(config.companies[i], cyc.web[i])) :
                  scrape_job_site_requests(config.companies[i], cyc.web[i])[k].title # <<>>

\* C8: a cycle with the dynamic backend has returned, having met an element
\* without a title element and an element whose title text is blank on a
\* page from which it committed another posting.
C8_Witness ==
    /\ cyc.n > 0
    /\ cyc.inner = "returned"
    /\ \E i \in Sites :
          /\ cyc.calls[i] = "dynamic"
          /\ \E k \in 1..Len(cyc.web[i].elems) : ~cyc.web[i].elems[k].title_elem
          /\ \E k \in 1..Len(cyc.web[i].elems) :
                /\ cyc.web[i].elems[k].title_elem
                /\ Strip(cyc.web[i].elems[k].title_text) = <<>>
          /\ Len(cyc.site_jobs[i]) = 1
          /\ Committed(cyc.site_jobs[i][1])

-----------------------------------------------------------------------------
\* JobMonitor.detect_job_platform and JobMonitor.get_selectors_for_company.
\* A url is a sequence of pieces: single characters and the texts the
\* platform patterns are made of.

Selectors(job_container, title, link) ==
    [job_container |-> job_container, title |-> title, link |-> link]

\* self.generic_selectors
generic_selectors ==
    [lever |-> Selectors(<<".posting">>, <<".posting-btn, .posting-name">>,
                         <<"a.posting-btn">>),
     greenhouse |-> Selectors(<<".opening">>, <<".opening a, .opening h3">>,
                              <<".opening a">>),
     ashby |-> Selectors(<<".job-posting">>, <<".job-posting h3, .job-posting a">>,
                         <<".job-posting a">>),
     workday |-> Selectors(<<".job-result">>, <<".job-result h3, .job-result a">>,
                           <<".job-result a">>),
     bamboo |-> Selectors(<<".job-listing">>, <<".job-listing h3, .job-listing a">>,
                          <<".job-listing a">>)]

\* The dict returned when no platform is detected.
fallback_selectors ==
    Selectors(<<".job, .position, .opening, .posting, [class*=\"job\"], [class*=\"position\"]">>,
              <<"h1, h2, h3, h4, .title, .job-title, .position-title, a">>,
              <<"a">>)

\* detect_job_platform with the test for greenhouse made before the one for
\* lever.
detect_job_platform_greenhouse_first(url) ==
    IF url = None THEN "AttributeError"
    ELSE LET url_lower == Lower(url)
         IN  IF Contains(url_lower, <<"boards.", "greenhouse", ".io">>)
                \/ Contains(url_lower, <<"greenhouse">>) THEN "greenhouse"
             ELSE IF Contains(url_lower, <<"lever.co">>) THEN "lever"
             ELSE IF Contains(url_lower, <<"jobs.ashbyhq.com">>) THEN "ashby"
             ELSE IF Contains(url_lower, <<"workday">>) THEN "workday"
             ELSE IF Contains(url_lower, <<"bamboohr">>) THEN "bamboo"
             ELSE "custom"

\* url.lower() of None raises AttributeError.
detect_job_platform(url) ==
    IF url = None THEN "AttributeError"
    ELSE LET url_lower == Lower(url)
         IN  IF Contains(url_lower, <<"lever.co">>) THEN "lever"
             ELSE IF Contains(url_lower, <<"boards.", "greenhouse", ".io">>)
                     \/ Contains(url_lower, <<"greenhouse">>) THEN "greenhouse"
             ELSE IF Contains(url_lower, <<"jobs.ashbyhq.com">>) THEN "ashby"
             ELSE IF Contains(url_lower, <<"workday">>) THEN "workday"
             ELSE IF Contains(url_lower, <<"bamboohr">>) THEN "bamboo"
             ELSE "custom"

\* The result of a call that raised.
Raised(exception) == [raised |-> exception]

\* The selectors by platform detection, or the exception of the detection.
platform_selectors(company_config) ==
    LET platform == detect_job_platform(Get(company_config, "url", <<>>))
    IN  IF platform = "AttributeError" THEN Raised("AttributeError")
        ELSE IF platform \in DOMAIN generic_selectors THEN generic_selectors[platform]
        ELSE fallback_selectors

\* get_selectors_for_company without the test for the company's own selectors.
get_selectors_ignoring_own(company_config) == platform_selectors(company_config)

\* A dict is true when it has a key.
get_selectors_for_company(company_config) ==
    IF "selectors" \in DOMAIN company_config
          /\ DOMAIN company_config.selectors # {}
    THEN company_config.selectors
    ELSE platform_selectors(company_config)

UrlPieces ==
    {"lever.co", "LEVER.CO", "GreenHouse", "boards.", ".io", "jobs.ashbyhq.com",
     "Workday", "bamboohr", "x"}

\* The urls of the companies given to the resolver, and null.
ResolveUrls == {<<"https://">> \o u : u \in SeqsUpTo(UrlPieces, MaxUrl)} \cup {None}

\* The selectors a company may configure: none, an empty dict, some, all roles.
OwnSelectors ==
    {<<>>,
     [job_container |-> <<".card">>, title |-> <<"h2">>],
     Selectors(<<".card">>, <<"h2">>, <<"a.more">>)}

\* The company configurations given to the resolver.
ResolveCompanies ==
    {[name |-> <<"c">>]}
        \cup {[name |-> <<"c">>, url |-> u] : u \in ResolveUrls}
        \cup {[name |-> <<"c">>, url |-> u, selectors |-> sel] :
                 u \in ResolveUrls, sel \in OwnSelectors}

Resolve ==
    /\ fn = NoFn
    /\ \E company_config \in ResolveCompanies :
          fn' = [name |-> "get_selectors_for_company",
                 in |-> <<company_config>>,
                 out |-> get_selectors_for_company(company_config)]
    /\ UNCHANGED <<storeVars, monitorVars, adding>>

NextResolve == Resolve

SpecResolve == Init /\ [][NextResolve]_vars

-----------------------------------------------------------------------------
\* Properties of the selector resolver (specification SpecResolve).

\* The platform patterns in the order of their priority.
PlatformPatterns ==
    << <<"lever", "lever.co">>, <<"greenhouse", "greenhouse">>,
       <<"ashby", "jobs.ashbyhq.com">>, <<"workday", "workday">>,
       <<"bamboo", "bamboohr">> >>

\* The piece in lower case.
LoweredPiece(c) ==
    IF c = "LEVER.CO" THEN "lever.co"
    ELSE IF c = "GreenHouse" THEN "greenhouse"
    ELSE IF c = "Workday" THEN "workday"
    ELSE c

\* The pattern of priority k occurs in the lower-cased url.
PatternOccurs(k, url) ==
    \E i \in 1..Len(url) : LoweredPiece(url[i]) = PlatformPatterns[k][2]

\* The company configuration has selectors of its own.
HasOwnSelectors(company_config) ==
    "selectors" \in DOMAIN company_config /\ DOMAIN company_config.selectors # {}

\* C11: when the company configures a non-empty selector set, the resolver
\* returns exactly that set, whatever the url is: a url with a platform
\* pattern, a url without one, or null.
C11_ExplicitVerbatim ==
    (fn.name = "get_selectors_for_company" /\ HasOwnSelectors(fn.in[1]))
        => fn.out = fn.in[1].selectors

\* C11: the resolver has returned the selectors of a company whose url
\* carries the pattern of a platform, and they are not that platform's.
C11_Witness ==
    /\ fn.name = "get_selectors_for_company"
    /\ HasOwnSelectors(fn.in[1])
    /\ fn.in[1].url # None
    /\ PatternOccurs(1, fn.in[1].url)
    /\ fn.out = fn.in[1].selectors
    /\ fn.out # generic_selectors.lever

\* C12: without selectors of its own (none, or an empty set) and with a url
\* that is a text or is missing, the resolver returns a selector set: that of
\* the first platform, in the order lever, greenhouse, ashby, workday, bamboo,
\* whose pattern occurs in the lower-cased url, and the generic fallback,
\* which has the container, title and link roles, exactly when none occurs.
C12_PlatformPriority ==
    (/\ fn.name = "get_selectors_for_company"
     /\ ~HasOwnSelectors(fn.in[1])
     /\ Get(fn.in[1], "url", <<>>) # None)
        => LET url == Get(fn.in[1], "url", <<>>)
               hits == {k \in 1..Len(PlatformPatterns) : PatternOccurs(k, url)}
           IN  /\ "raised" \notin DOMAIN fn.out
               /\ \A k \in hits :
                     (\A j \in hits : k <= j)
                        => fn.out = generic_selectors[PlatformPatterns[k][1]]
               /\ (hits = {}) <=> (fn.out = fallback_selectors)
               /\ DOMAIN fallback_selectors = {"job_container", "title", "link"}

\* C12: the resolver has been given a url in which the patterns of two
\* platforms occur, the one of lower priority first, and no own selectors.
C12_Witness ==
    /\ fn.name = "get_selectors_for_company"
    /\ ~HasOwnSelectors(fn.in[1])
    /\ "url" \in DOMAIN fn.in[1]
    /\ fn.in[1].url # None
    /\ Len(fn.in[1].url) = 3
    /\ LoweredPiece(fn.in[1].url[2]) = "greenhouse"
    /\ fn.in[1].url[3] = "LEVER.CO"
    /\ fn.out = generic_selectors.lever

-----------------------------------------------------------------------------
\* JobDatabase.add_job called by processes that share the database file.
\* job_exists reads through a connection of its own; the two INSERTs and the
\* commit are one transaction of a second connection, which SQLite runs
\* under the write lock of the file.

\* generate_job_hash and the job_exists test of add_job: the process returns
\* False when it sees the row, and goes on to the inserts otherwise.
AddJobCheck(p) ==
    /\ adding[p].pc \in {"idle", "returned"}
    /\ \E job_data \in ApiPostings :
          LET saw == job_exists(jobs, generate_job_hash(job_data))
          IN  adding' = [adding EXCEPT ![p] =
                            [pc |-> IF saw THEN "returned" ELSE "insert",
                             job_data |-> job_data,
                             saw |-> saw,
                             ret |-> IF saw THEN "False" ELSE "None"]]
    /\ UNCHANGED <<storeVars, monitorVars, fn>>

\* The transaction of add_job: the inserts and the commit, or the
\* IntegrityError of the UNIQUE job_hash, which leaves add_job.
AddJobInsert(p) ==
    /\ adding[p].pc = "insert"
    /\ LET job_hash == generate_job_hash(adding[p].job_data)
           r == insert_job(jobs, history, now, job_hash, adding[p].job_data)
       IN  /\ jobs' = r.jobs
           /\ history' = r.history
           /\ fresh' = IF r.ret = "True" /\ HistoryOf(history, job_hash) = <<>>
                       THEN fresh \cup {job_hash} ELSE fresh
           /\ adding' = [adding EXCEPT ![p].pc = "returned", ![p].ret = r.ret]
    /\ last' = NoCall
    /\ UNCHANGED <<now, nset, monitorVars, fn>>

NextConcurrent ==
    \/ \E p \in Procs : AddJobCheck(p)
    \/ \E p \in Procs : AddJobInsert(p)

SpecConcurrent == Init /\ [][NextConcurrent]_vars

\* C13: when two processes have both returned from add of the same posting
\* and the store held no record of it when the first of them made its
\* exists-check, then, however their checks and inserts interleaved, exactly
\* one call returned true, the other returned false without raising, and the
\* store holds exactly one job record and one history entry of the identity.
C13_AtomicInsertIfAbsent ==
    \A p \in Procs : \A q \in Procs \ {p} :
        (/\ adding[p].pc = "returned"
         /\ adding[q].pc = "returned"
         /\ adding[p].job_data = adding[q].job_data
         /\ ~adding[p].saw)
            => /\ {adding[p].ret, adding[q].ret} = {"True", "False"}
               /\ Len(RowsOf(jobs, generate_job_hash(adding[p].job_data))) = 1
               /\ Len(HistoryOf(history, generate_job_hash(adding[p].job_data))) = 1

-----------------------------------------------------------------------------
\* Sightings: add_job with postings that the store may already hold, between
\* status updates and ticks of the clock.

\* A posting, and the same (title, company, url) sighted with another
\* location, department and employment type; and a posting of another identity.
Sightings ==
    {Posting(<<"a">>, <<"b", "c">>, <<"u">>, <<>>),
     [Posting(<<"a">>, <<"b", "c">>, <<"u">>, <<"y">>) EXCEPT
         !.department = <<"d">>, !.employment_type = <<"f">>],
     Posting(<<"b">>, <<"c">>, <<"u">>, <<>>)}

AddSighting ==
    \E p \in Sightings :
        LET h == generate_job_hash(p)
            r == add_job(jobs, history, now, p)
        IN  /\ jobs' = r.jobs
            /\ history' = r.history
            /\ last' = Call("add_job", p, r.ret, jobs, history, h)
            /\ fresh' = IF r.ret = "True" /\ HistoryOf(history, h) = <<>>
                        THEN fresh \cup {h} ELSE fresh
            /\ UNCHANGED <<now, nset, monitorVars, fn, adding>>

NextSightings ==
    \/ AddSighting
    \/ UpdateJobStatus
    \/ Tick

SpecSightings == Init /\ [][NextSightings]_vars

\* The step is a call of add_job with a posting whose (title, company, url)
\* is that of a record in the store.
IsResighting ==
    /\ last'.op = "add_job"
    /\ <<last', jobs', history'>> # <<last, jobs, history>>
    /\ \E r \in 1..Len(jobs) : Triple(jobs[r]) = Triple(last'.arg)

\* C14: add with a posting whose (title, company, url) equals that of an
\* existing job record returns False and leaves every job record, with all
\* its fields, and the whole history as they were, also when the sighting
\* carries another location, department or employment type.
C14_ResightingNoOp ==
    [][IsResighting =>
          /\ last'.ret = "False"
          /\ jobs' = jobs
          /\ history' = history]_vars

\* C14: add has returned False for a sighting whose location, department and
\* employment type differ from those of the record, a record whose status
\* was updated a second after it was first seen.
C14_Witness ==
    /\ last.op = "add_job"
    /\ last.ret = "False"
    /\ \E r \in 1..Len(jobs) :
          /\ Triple(jobs[r]) = Triple(last.arg)
          /\ jobs[r].location # last.arg.location
          /\ jobs[r].department # last.arg.department
          /\ jobs[r].employment_type # last.arg.employment_type
          /\ jobs[r].status # StatusNew
          /\ jobs[r].last_updated # jobs[r].first_seen

-----------------------------------------------------------------------------
\* The dynamic backend applied to pages drawn from bounded sets.

\* The container elements a page may hold. The last one has an element of
\* class "location" without text before one of class "place" with text, and
\* an element of class "team".
DynamicElems ==
    {Elem(<<"a">>, UrlDirect),
     Elem(<<" ", "b", " ">>, <<"/", "k">>),
     Elem(<<"b">>, <<"k">>),
     [Elem(<<"a">>, UrlDirect) EXCEPT !.throws = TRUE],
     [Elem(<<>>, UrlDirect) EXCEPT !.title_elem = FALSE],
     Elem(<<" ">>, UrlDirect),
     [Elem(<<"c">>, None) EXCEPT !.link_elem = FALSE],
     Elem(<<"c">>, None),
     Elem(<<"c">>, <<>>),
     [Elem(<<"a">>, UrlDirect) EXCEPT
         !.location = << <<>>, <<"z">>, <<>>, <<"z">> >>,
         !.department = <<None, <<" ", "d">>, None, None>>]}

DynamicPages ==
    {Page(fail, elems) :
        fail \in {"none", "launch", "goto", "query", "debug", "close"},
        elems \in SeqsUpTo(DynamicElems, MaxElems)}

ScrapeDynamic ==
    /\ fn = NoFn
    /\ \E page \in DynamicPages :
          fn' = [name |-> "scrape_job_site",
                 in |-> <<SiteS, page>>,
                 out |-> scrape_job_site_call(SiteS.name, SiteS.url, page)]
    /\ UNCHANGED <<storeVars, monitorVars, adding>>

NextDynamic == ScrapeDynamic

SpecDynamic == Init /\ [][NextDynamic]_vars

-----------------------------------------------------------------------------
\* Properties of the dynamic backend (specification SpecDynamic).

\* The element parses without an exception and has a title element whose
\* text is not blank.
HasTitle(elem) ==
    /\ ~elem.throws
    /\ elem.title_elem
    /\ \E k \in 1..Len(elem.title_text) : elem.title_text[k] # " "

\* C16: the call of the dynamic backend never raises. When the session
\* cannot be created, the navigation fails or the container query throws, it
\* returns the empty list. Otherwise a container whose parsing raises is the
\* only one dropped for it: the postings returned are those of the containers
\* with a title that parsed, in page order.
C16_DynamicNeverRaises ==
    fn.name = "scrape_job_site" =>
        LET page == fn.in[2]
            kept == SelectSeq(page.elems, HasTitle)
        IN  /\ fn.out.raised = "none"
            /\ page.fail \in {"launch", "goto", "query"} => fn.out.jobs = <<>>
            /\ page.fail \in {"none", "debug", "close"} =>
                  /\ Len(fn.out.jobs) = Len(kept)
                  /\ \A k \in 1..Len(kept) :
                        fn.out.jobs[k].title = Strip(kept[k].title_text)

\* C16: the backend has returned the empty list from a page with a container
\* on which the container query threw.
C16_Witness ==
    /\ fn.name = "scrape_job_site"
    /\ fn.in[2].fail = "query"
    /\ SelectSeq(fn.in[2].elems, HasTitle) # <<>>
    /\ fn.out = [raised |-> "none", jobs |-> <<>>]

\* The link of the element can be extracted: the element has a link element
\* with a non-empty href.
HasLink(elem) == elem.link_elem /\ elem.href # None /\ elem.href # <<>>

\* C17: every posting the dynamic backend returns has a usable title and a
\* link: its url is a non-empty text that begins with http:// or https://,
\* relative links resolved against the page url; and a container whose link
\* cannot be extracted gives no posting.
C17_TitleAndLink ==
    fn.name = "scrape_job_site" =>
        /\ \A k \in 1..Len(fn.out.jobs) :
              /\ UsableTitle(fn.out.jobs[k].title)
              /\ fn.out.jobs[k].url # None
              /\ fn.out.jobs[k].url # <<>>
              /\ Head(fn.out.jobs[k].url) \in {"http://", "https://"}
        /\ LET Both(elem) == HasTitle(elem) /\ HasLink(elem)
           IN  Len(fn.out.jobs) <= Len(SelectSeq(fn.in[2].elems, Both))

-----------------------------------------------------------------------------
\* Properties of the discovery cycle: errors and the hand-over
\* (specification SpecCycle).

\* C15: every run of the discovery cycle returns control to the caller of
\* its entry point, whatever fails during it, with the new postings it found
\* (none in the worst case).
C15_CycleReturns ==
    cyc.n > 0 => cyc.outer = "returned"

\* The list given to send_email_alert in the cycle: the call is made only
\* with a non-empty list.
HandedOver(c) == IF c.email # "none" THEN c.new_jobs ELSE <<>>

\* C19: the list handed to the notification in a cycle is exactly the
\* postings whose records the cycle inserted, in their order; a record
\* inserted before a later add of the same cycle fails is handed over too.
C19_HandOver ==
    [][cyc'.n = cyc.n + 1 =>
          LET inserted == SubSeq(jobs', Len(jobs) + 1, Len(jobs'))
              handed == HandedOver(cyc')
          IN  /\ Len(handed) = Len(inserted)
              /\ \A k \in 1..Len(handed) : Triple(handed[k]) = Triple(inserted[k])]_vars

-----------------------------------------------------------------------------
\* The static backend applied to pages drawn from bounded sets.

StaticElems ==
    {Elem(<<"a">>, UrlDirect),
     Elem(<<" ", "b">>, <<"/", "k">>),
     [Elem(<<"a">>, UrlDirect) EXCEPT !.throws = TRUE],
     [Elem(<<>>, UrlDirect) EXCEPT !.title_elem = FALSE],
     [Elem(<<" ">>, UrlDirect) EXCEPT !.heading = <<"c", " ">>],
     [Elem(<<>>, UrlDirect) EXCEPT !.title_elem = FALSE, !.heading = <<" ">>],
     [Elem(<<"c">>, None) EXCEPT !.link_elem = FALSE],
     [Elem(<<"c">>, None) EXCEPT !.anchor = <<"k">>],
     [Elem(<<"c">>, <<>>) EXCEPT !.anchor = <<>>]}

StaticPages ==
    {Page(fail, elems) :
        fail \in {"none", "get"}, elems \in SeqsUpTo(StaticElems, MaxElems)}

ScrapeStatic ==
    /\ fn = NoFn
    /\ \E page \in StaticPages :
          fn' = [name |-> "scrape_job_site_requests",
                 in |-> <<SiteS, page>>,
                 out |-> scrape_job_site_requests(SiteS, page)]
    /\ UNCHANGED <<storeVars, monitorVars, adding>>

NextStatic == ScrapeStatic

SpecStatic == Init /\ [][NextStatic]_vars

\* The container has a title after the fallback: a selected title element or,
\* failing that, a heading, with a text that is not blank.
TitleAfterFallbacks(elem) ==
    \/ elem.title_elem /\ \E k \in 1..Len(elem.title_text) : elem.title_text[k] # " "
    \/ elem.heading # None /\ \E k \in 1..Len(elem.heading) : elem.heading[k] # " "

\* The container has a link after the fallback: a selected link element or,
\* failing that, an anchor, with a non-empty href.
LinkAfterFallbacks(elem) ==
    \/ elem.link_elem /\ elem.href # None /\ elem.href # <<>>
    \/ elem.anchor # None /\ elem.anchor # <<>>

\* C18: the static backend returns a posting for a container only if the
\* container has both a title and a link after all fallbacks; every posting
\* it returns has a non-empty title, a non-empty url and the company name of
\* the site.
C18_StaticTitleAndLink ==
    fn.name = "scrape_job_site_requests" =>
        LET Both(elem) == ~elem.throws /\ TitleAfterFallbacks(elem) /\ LinkAfterFallbacks(elem)
            kept == SelectSeq(fn.in[2].elems, Both)
        IN  /\ Len(fn.out) <= Len(kept)
            /\ fn.in[2].fail = "none" => Len(fn.out) = Len(kept)
            /\ \A k \in 1..Len(fn.out) :
                  /\ fn.out[k].title # <<>>
                  /\ fn.out[k].url # <<>>
                  /\ fn.out[k].url # None
                  /\ fn.out[k].company = fn.in[1].name

\* C18: the static backend has returned one posting from a page of two
\* containers: one whose title comes from the heading, and one that has a
\* title and no link, neither selected nor by an anchor.
C18_Witness ==
    /\ fn.name = "scrape_job_site_requests"
    /\ Len(fn.in[2].elems) = 2
    /\ Len(fn.out) = 1
    /\ \E k \in 1..2 :
          /\ fn.in[2].elems[k].heading # None
          /\ fn.out[1].title = Strip(fn.in[2].elems[k].heading)
    /\ \E k \in 1..2 :
          /\ TitleAfterFallbacks(fn.in[2].elems[k])
          /\ ~LinkAfterFallbacks(fn.in[2].elems[k])

-----------------------------------------------------------------------------
\* Properties of the job records (specification Spec).

\* The step is a status update of an identity that has a record; the status
\* given is the one the call also writes to the history.
C20_Update ==
    (nset' # nset) =>
        \A i \in 1..Len(jobs) :
            IF jobs[i].job_hash = last'.arg
            THEN jobs'[i] = [jobs[i] EXCEPT !.status = history'[Len(history')].status,
                                            !.last_updated = now]
            ELSE jobs'[i] = jobs[i]

\* No step removes a record or changes its first_seen, and a record that a
\* step inserts is first seen at the time of the step.
C20_FirstSeen ==
    /\ Len(jobs') >= Len(jobs)
    /\ \A i \in 1..Len(jobs) : jobs'[i].first_seen = jobs[i].first_seen
    /\ \A i \in (Len(jobs) + 1)..Len(jobs') : jobs'[i].first_seen = now

\* C20: first_seen is set at insert and no later operation changes it; a
\* status update of an existing identity sets the status of its record to
\* the given value and its last_updated to the time of the update, and
\* leaves every field of every other record as it was.
C20_RecordFields == [][C20_FirstSeen /\ C20_Update]_vars

\* C20: of two records first seen at time 0, one has had its status updated
\* at a later time and the other is as it was inserted.
C20_Witness ==
    /\ last.op \in UpdateOps
    /\ \E i \in 1..Len(jobs) : \E j \in 1..Len(jobs) :
          /\ i # j
          /\ jobs[i].job_hash = last.arg
          /\ jobs[i].status # StatusNew
          /\ jobs[i].first_seen = 0
          /\ jobs[i].last_updated = now
          /\ now > 0
          /\ jobs[j].status = StatusNew
          /\ jobs[j].last_updated = jobs[j].first_seen

-----------------------------------------------------------------------------
\* The store under add_job, both status updates and discovery cycles of
\* job_monitor_enhanced.

\* The number of history rows after which no further operation is started.
MaxRows == 3

\* What the sites show to the cycles that run between the store operations:
\* a posting on each of the two sites; and two postings on the first site, the
\* second without href, while the browser of the other site fails to start.
StoreWebs ==
    {<<Page("none", <<Elem(<<"a">>, UrlRedirect)>>), Page("none", <<>>),
       Page("none", <<Elem(<<"b">>, <<"/", "k">>)>>)>>,
     <<Page("none", <<Elem(<<"a">>, UrlRedirect), Elem(<<"b">>, None)>>),
       Page("none", <<>>), Page("launch", <<>>)>>}

\* main of job_monitor_enhanced: a discovery cycle on the database the store
\* operations work on.
StoreCycle ==
    /\ Len(history) < MaxRows
    /\ config.entry = "enhanced"
    /\ cyc.n < MaxCycles
    /\ cyc.outer # "raised"
    /\ \E web \in StoreWebs, mail \in {"sent", "failed"} : EnhancedRun(web, mail)
    /\ UNCHANGED patched

\* The store operations, started while the history is short of MaxRows rows.
StoreAdd == Len(history) < MaxRows /\ AddJob

StoreUpdate == Len(history) < MaxRows /\ UpdateJobStatus

StoreDbManagerUpdate == Len(history) < MaxRows /\ DbManagerUpdate

NextStore ==
    \/ StoreAdd
    \/ StoreUpdate
    \/ StoreDbManagerUpdate
    \/ StoreCycle

SpecStore == Init /\ [][NextStore]_vars

\* C21: the store only grows: in every step of add, set_status and discovery
\* cycles each job record that existed still exists, at its place and with
\* its identity, and the history of each identity (and the whole history)
\* after the step is its history before the step, followed by what the step
\* appended: no entry is edited or deleted.
C21_StoreOnlyGrows ==
    [][/\ Len(jobs') >= Len(jobs)
       /\ \A i \in 1..Len(jobs) : jobs'[i].job_hash = jobs[i].job_hash
       /\ Len(history') >= Len(history)
       /\ SubSeq(history', 1, Len(history)) = history
       /\ \A h \in {history[i].job_hash : i \in 1..Len(history)} :
             LET before == HistoryOf(history, h)
                 after == HistoryOf(history', h)
             IN  /\ Len(after) >= Len(before)
                 /\ SubSeq(after, 1, Len(before)) = before]_vars

\* C21: a discovery cycle has inserted a record next to a record that add_job
\* had inserted and whose status a status update had set.
C21_Witness ==
    /\ cyc.n >= 1
    /\ cyc.new_jobs # <<>>
    /\ Len(jobs) >= 2
    /\ \E i \in 1..Len(jobs) :
          /\ jobs[i].job_hash \in ApiHashes
          /\ jobs[i].status = <<"applied">>
          /\ Len(HistoryOf(history, jobs[i].job_hash)) >= 2
    /\ \E i \in 1..Len(jobs) : jobs[i].job_hash = generate_job_hash(cyc.new_jobs[1])

-----------------------------------------------------------------------------
\* C22: initialising the store on a database that already holds data, at a
\* process start or by calling init_database again, succeeds (returns without
\* an exception) and leaves all job records and history entries as they were.
C22_InitKeepsData ==
    [][last'.op = "init_database" =>
          /\ last'.ret = "None"
          /\ jobs' = jobs
          /\ history' = history]_vars

\* C22: init_database has returned on a database that holds a record whose
\* status was updated, and its history.
C22_Witness ==
    /\ last.op = "init_database"
    /\ last.ret = "None"
    /\ \E i \in 1..Len(jobs) : jobs[i].status = <<"applied">>
    /\ Len(history) >= 2

-----------------------------------------------------------------------------
\* JobMonitor.run_monitoring_cycle step by step, with the dynamic backend: the
\* loop over the companies, the filter, the loop of get_new_jobs, the alert;
\* and an interruption (KeyboardInterrupt, or the end of the process) at any
\* point of it.

\* What site i may show.
SitePages(i) == IF i = 1 THEN PagesS ELSE PagesT

\* The cycle is called: all_jobs = [].
RunStart ==
    /\ run.pc \in {"idle", "returned", "raised", "interrupted"}
    /\ run.n < MaxCycles
    /\ run' = [pc |-> "sites", n |-> run.n + 1, i |-> 1, all_jobs |-> <<>>,
               queue |-> <<>>, new_jobs |-> <<>>]
    /\ UNCHANGED <<storeVars, use_playwright, patched, config, cyc, fn, adding>>

\* One pass of the loop over the companies that writes what the site gave to
\* the store before it goes on to the next company.
RunSiteCommitting ==
    /\ run.pc = "sites"
    /\ run.i <= Len(config.companies)
    /\ LET company == config.companies[run.i]
           company_name == Get(company, "name", <<"Unknown Company">>)
           url == Get(company, "url", None)
       IN  \E page \in SitePages(run.i) :
              LET found == IF Truthy(url) THEN scrape_job_site(company_name, url, page)
                           ELSE <<>>
                  g == get_new_jobs(jobs, history, now, found)
              IN  /\ run' = [run EXCEPT !.i = @ + 1, !.all_jobs = @ \o found]
                  /\ jobs' = g.jobs
                  /\ history' = g.history
    /\ UNCHANGED <<now, last, nset, fresh, use_playwright, patched, config, cyc, fn,
                   adding>>

\* One pass of the loop over the companies: a company without url is skipped,
\* the postings of another are appended to all_jobs.
RunSite ==
    /\ run.pc = "sites"
    /\ run.i <= Len(config.companies)
    /\ LET company == config.companies[run.i]
           company_name == Get(company, "name", <<"Unknown Company">>)
           url == Get(company, "url", None)
       IN  IF ~Truthy(url)
           THEN run' = [run EXCEPT !.i = @ + 1]
           ELSE \E page \in SitePages(run.i) :
                   run' = [run EXCEPT
                              !.i = @ + 1,
                              !.all_jobs = @ \o scrape_job_site(company_name, url, page)]
    /\ UNCHANGED <<storeVars, use_playwright, patched, config, cyc, fn, adding>>

\* After the last company: filter_jobs_by_keywords, and get_new_jobs is
\* entered.
RunFilter ==
    /\ run.pc = "sites"
    /\ run.i > Len(config.companies)
    /\ run' = [run EXCEPT
                  !.pc = "store",
                  !.queue = filter_jobs_by_keywords(run.all_jobs,
                                                    Get(config, "keywords", <<>>))]
    /\ UNCHANGED <<storeVars, use_playwright, patched, config, cyc, fn, adding>>

\* One pass of the loop of get_new_jobs: add_job in its transaction. An
\* IntegrityError leaves the cycle and main.
RunAdd ==
    /\ run.pc = "store"
    /\ run.queue # <<>>
    /\ LET job == Head(run.queue)
           h == generate_job_hash(job)
           r == add_job(jobs, history, now, job)
       IN  /\ jobs' = r.jobs
           /\ history' = r.history
           /\ last' = Call("add_job", job, r.ret, jobs, history, h)
           /\ fresh' = IF r.ret = "True" /\ HistoryOf(history, h) = <<>>
                       THEN fresh \cup {h} ELSE fresh
           /\ run' = IF r.ret = "raise"
                     THEN [run EXCEPT !.pc = "raised"]
                     ELSE [run EXCEPT
                              !.queue = Tail(@),
                              !.new_jobs = IF r.ret = "True" THEN Append(@, job) ELSE @]
    /\ UNCHANGED <<now, nset, use_playwright, patched, config, cyc, fn, adding>>

\* get_new_jobs returns; send_email_alert when there are new jobs; the cycle
\* returns new_jobs.
RunAlert ==
    /\ run.pc = "store"
    /\ run.queue = <<>>
    /\ run' = [run EXCEPT !.pc = "returned"]
    /\ UNCHANGED <<storeVars, use_playwright, patched, config, cyc, fn, adding>>

\* The cycle is interrupted: its local variables are lost. A transaction of
\* add_job that has not committed is rolled back, so the tables are those of
\* the last commit.
Interrupt ==
    /\ run.pc \in {"sites", "store"}
    /\ run' = [run EXCEPT !.pc = "interrupted"]
    /\ UNCHANGED <<storeVars, use_playwright, patched, config, cyc, fn, adding>>

NextSteps ==
    \/ RunStart
    \/ RunSite
    \/ RunFilter
    \/ RunAdd
    \/ RunAlert
    \/ Interrupt

SpecSteps == Init /\ [][NextSteps]_vars

\* Every jobs row has its history row, written with it: status new.
CompletePairs ==
    /\ Len(jobs) = Len(history)
    /\ \A r \in 1..Len(jobs) :
          /\ history[r].job_hash = jobs[r].job_hash
          /\ history[r].status = StatusNew

\* C23: no store write of a cycle happens before the extraction of the site
\* it came from has completed: a step that writes to the store is taken after
\* the loop over the sites has ended, and writes one record with its history
\* entry, of a posting in the aggregate of the completed extractions. A cycle
\* interrupted between two site extractions (or anywhere) leaves the store as
\* it was, holding only complete record plus history-entry pairs.
C23_InterruptLeavesCompletePairs ==
    [][/\ <<jobs', history'>> # <<jobs, history>> =>
             /\ run.pc = "store"
             /\ run.i > Len(config.companies)
             /\ Len(jobs') = Len(jobs) + 1
             /\ SubSeq(jobs', 1, Len(jobs)) = jobs
             /\ \E k \in 1..Len(run.all_jobs) :
                   Triple(run.all_jobs[k]) = Triple(jobs'[Len(jobs')])
       /\ run.pc = "sites" => <<jobs', history'>> = <<jobs, history>>
       /\ run'.pc = "interrupted" => <<jobs', history'>> = <<jobs, history>>
       /\ CompletePairs']_vars

\* C23: a cycle was interrupted between the extraction of the first site,
\* which gave postings, and that of the last site, in a process whose store
\* holds records of an earlier cycle.
C23_Witness ==
    /\ run.pc = "interrupted"
    /\ run.i \in 2..Len(config.companies)
    /\ run.all_jobs # <<>>
    /\ run.n >= 2
    /\ jobs # <<>>
    /\ \E k \in 1..Len(run.all_jobs) :
          ~job_exists(jobs, generate_job_hash(run.all_jobs[k]))

-----------------------------------------------------------------------------
\* The heuristic sub-selectors of the dynamic backend (specification
\* SpecDynamic).

\* The stripped text of the first element found that has text; the empty
\* text when there is none.
RECURSIVE FirstNonEmpty(_)
FirstNonEmpty(found) ==
    IF found = <<>> THEN <<>>
    ELSE IF Head(found) # None /\ Strip(Head(found)) # <<>> THEN Strip(Head(found))
    ELSE FirstNonEmpty(Tail(found))

\* C24: for each of location, department and employment_type the dynamic
\* backend probes its sub-selectors in order and takes the first non-empty
\* match: when an earlier selector matches an element with empty text and a
\* later one matches an element with text, the field gets the later text.
C24_FirstNonEmptyMatch ==
    (fn.name = "scrape_job_site" /\ fn.in[2].fail \in {"none", "debug", "close"}) =>
        LET kept == SelectSeq(fn.in[2].elems, HasTitle)
        IN  \A k \in 1..Len(kept) :
               /\ k <= Len(fn.out.jobs)
               /\ fn.out.jobs[k].location = FirstNonEmpty(kept[k].location)
               /\ fn.out.jobs[k].department = FirstNonEmpty(kept[k].department)
               /\ fn.out.jobs[k].employment_type = FirstNonEmpty(kept[k].employment_type)

-----------------------------------------------------------------------------
\* Records and their history (specification Spec).

\* C25: in every reachable state each job record has at least one history
\* entry, and the earliest history entry of its identity is the one created
\* together with the record: status new, with the note of the monitor,
\* written in the second the record was first seen; add persists both or
\* neither.
C25_RecordHasInitialEntry ==
    \A r \in 1..Len(jobs) :
        LET hs == HistoryOf(history, jobs[r].job_hash)
        IN  /\ hs # <<>>
            /\ hs[1].status = StatusNew
            /\ hs[1].notes = NoteDiscovered
            /\ hs[1].timestamp = jobs[r].first_seen

\* C26: after any sequence of add and set_status operations, through
\* JobDatabase or db_manager, the status of every job record equals the
\* status of the most recently appended history entry of its identity.
C26_StatusIsLatestEntry ==
    \A r \in 1..Len(jobs) :
        LET hs == HistoryOf(history, jobs[r].job_hash)
        IN  /\ hs # <<>>
            /\ jobs[r].status = hs[Len(hs)].status

\* C26: db_manager has set the status of a record that has three history
\* entries, next to a record that is still new.
C26_Witness ==
    /\ last.op = "dbm_update_job_status"
    /\ last.ret = "None"
    /\ \E r \in 1..Len(jobs) :
          /\ jobs[r].job_hash = last.arg
          /\ jobs[r].status = <<"applied">>
          /\ Len(HistoryOf(history, last.arg)) >= 3
    /\ \E r \in 1..Len(jobs) : jobs[r].status = StatusNew

\* C27: referential integrity of the history: in every reachable state the
\* identity of every history entry is the identity of an existing job record,
\* also after a status update against an unknown identity.
C27_HistoryHasRecord ==
    \A e \in 1..Len(history) : job_exists(jobs, history[e].job_hash)

-----------------------------------------------------------------------------
\* Duplicates and the hand-over to the notification across cycles
\* (specification SpecCycle).

\* The place of the first posting of filtered list fj that has the identity
\* of fj[k].
FirstOf(fj, k) ==
    CHOOSE m \in 1..k :
        /\ generate_job_hash(fj[m]) = generate_job_hash(fj[k])
        /\ \A j \in 1..(m - 1) : generate_job_hash(fj[j]) # generate_job_hash(fj[k])

\* C28: within one cycle, when the filtered aggregate holds several postings
\* of one identity, only the first is reported as new: the new-postings list
\* of the cycle has no two postings of equal identity, the store holds
\* exactly one record of the identity, that of the first posting, and an
\* identity that had a record before the cycle is not reported.
C28_FirstOfDuplicatesIsNew ==
    [][cyc'.n = cyc.n + 1 =>
          LET fj == cyc'.filtered_jobs
              nj == cyc'.new_jobs
          IN  /\ \A k, l \in 1..Len(nj) :
                    generate_job_hash(nj[k]) = generate_job_hash(nj[l]) => k = l
              /\ \A k \in 1..Len(fj) : Len(RowsOf(jobs', generate_job_hash(fj[k]))) <= 1
              /\ cyc'.inner = "returned" =>
                    \A k \in 1..Len(fj) :
                        LET h == generate_job_hash(fj[k])
                            reported == {j \in 1..Len(nj) : generate_job_hash(nj[j]) = h}
                        IN  /\ Len(RowsOf(jobs', h)) = 1
                            /\ job_exists(jobs, h) => reported = {}
                            /\ ~job_exists(jobs, h) =>
                                  /\ \A j \in reported : nj[j] = fj[FirstOf(fj, k)]
                                  /\ reported # {}
                                  /\ Triple(RowsOf(jobs', h)[1]) = Triple(fj[FirstOf(fj, k)])]_vars

\* C28: a cycle has returned whose filtered aggregate held two postings of
\* one identity, from two sites, and whose new-postings list holds the first
\* of them.
C28_Witness ==
    /\ cyc.n >= 1
    /\ cyc.inner = "returned"
    /\ \E k, l \in 1..Len(cyc.filtered_jobs) :
          /\ k < l
          /\ generate_job_hash(cyc.filtered_jobs[k]) = generate_job_hash(cyc.filtered_jobs[l])
          /\ cyc.filtered_jobs[k] # cyc.filtered_jobs[l]
          /\ \E j \in 1..Len(cyc.new_jobs) : cyc.new_jobs[j] = cyc.filtered_jobs[k]
          /\ Len(RowsOf(jobs, generate_job_hash(cyc.filtered_jobs[k]))) = 1

\* C29: across the discovery cycles each identity is in the new-postings
\* list handed to the notification in at most one cycle: what a cycle hands
\* over was handed over by no earlier cycle. The record of every posting
\* handed over is in the store, and a cycle whose notification could not be
\* delivered has returned like any other: the failure does not leave the
\* cycle.
C29_HandedOverOnce ==
    cyc.n > 0 =>
        /\ \A k \in 1..Len(HandedOver(cyc)) :
              /\ generate_job_hash(HandedOver(cyc)[k]) \notin cyc.handed
              /\ job_exists(jobs, generate_job_hash(HandedOver(cyc)[k]))
        /\ \A h \in cyc.handed : job_exists(jobs, h)
        /\ cyc.email = "failed" =>
              /\ cyc.inner = "returned"
              /\ cyc.outer = "returned"

\* C29: a cycle whose notification failed handed a posting over, and the
\* cycle after it found the same posting on the site and handed over
\* another one only.
C29_Witness ==
    /\ cyc.n >= 2
    /\ cyc.handed # {}
    /\ cyc.email = "failed"
    /\ \E k \in 1..Len(cyc.filtered_jobs) :
          generate_job_hash(cyc.filtered_jobs[k]) \in cyc.handed
    /\ cyc.new_jobs # <<>>

-----------------------------------------------------------------------------
\* The choice of the backend across the cycles of one process
\* (specification SpecCycle).

\* C30: the backend choice does not flap across the cycles of one process:
\* the result of the probe made at construction never changes; the static
\* scraper, once installed, stays installed, and no cycle that starts with it
\* installed calls the dynamic backend; and when the probe succeeded the
\* static scraper is never installed: every site with a url is extracted by
\* a call of the dynamic backend, also the sites after one on which the
\* dynamic backend failed.
C30_BackendDoesNotFlap ==
    [][/\ use_playwright' = use_playwright
       /\ patched => patched'
       /\ cyc'.n = cyc.n + 1 =>
             /\ (patched \/ patched') =>
                   \A i \in 1..Len(cyc'.calls) : cyc'.calls[i] # "dynamic"
             /\ use_playwright =>
                   /\ ~patched'
                   /\ \A i \in Sites : cyc'.calls[i] = "dynamic"]_vars

\* C30: in a process whose probe succeeded, a second cycle has called the
\* dynamic backend for the last site after the dynamic backend had failed on
\* the first site.
C30_Witness ==
    /\ config.entry = "railway"
    /\ use_playwright
    /\ cyc.n >= 2
    /\ cyc.web[1].fail # "none"
    /\ cyc.calls[1] = "dynamic"
    /\ cyc.calls[3] = "dynamic"
    /\ ~patched

====
